---- MODULE Spec2Model ----
(***************************************************************************)
(* Model of src/main.py: the marugujarat.in scraper that discovers job     *)
(* pages, extracts title and labeled links, downloads attachments, sends   *)
(* one Telegram message per job and records the URL in a MongoDB           *)
(* collection.                                                             *)
(***************************************************************************)
EXTENDS Integers, Sequences, FiniteSets, TLC

\* ---------------------------------------------------------------- bounds
NumUrls == 2
MaxUrls == 2
MaxRuns == 2
MaxItemLinks == 3
MaxRetries == 3
MaxChunks == 2
NumInstances == 2

\* ------------------------------------------------------ program constants
ItemTimeout == 120
DownloadTimeout == 30
ShortenPause == 2
DefaultMaxRetries == 1

\* ------------------------------------------------------------- data sets
None == "None"

URLs == 1..NumUrls

\* The text of h1.entry-title on the page of url u.
TitleOf(u) == <<"title", u>>

\* An h1.entry-title with no text gives the empty title.
Empty == <<>>

\* title is None.
NoTitle == <<"None">>

\* Label texts kept by scrape_selected_url: every text that contains one of
\* the four keywords.  The last text contains two of them.
Keys == {"Job Advertisement", "Job Notification", "Official website",
         "Apply Online", "Job Notification or Job Advertisement"}

\* "kw in key" of Python, tabulated for the label texts of Keys.
Contains(key, kw) ==
    \/ key = kw
    \/ key = "Job Notification or Job Advertisement"
         /\ kw \in {"Job Notification", "Job Advertisement"}

SeqsUpTo(S, n) == UNION {[1..m -> S] : m \in 0..n}

Range(s) == {s[j] : j \in 1..Len(s)}

\* Results of one session.get + raise_for_status.
GetOutcomes == {"ok", "ssl", "err"}

\* Wall-clock durations (seconds) a step may take.
ScrapeDurations == {10, 130}
DownloadDurations == {1, 150}
SendDurations == {1}

\* The index page content: the hrefs of the matching anchors, in order.
IndexLists == SeqsUpTo(URLs, MaxUrls)

\* The value of index when the index page was not read: no list of URLs.
Unread == <<0>>

\* The dicts of label text -> href with at most n links: distinct keys in
\* insertion order.
Dicts(n) ==
    {s \in SeqsUpTo(Keys, n) :
        \A a, b \in 1..Len(s) : a # b => s[a] # s[b]}

\* The dicts the item pages of a run of main carry.
JobDetails == {<<>>, <<"Official website">>}

Pow2(n) == IF n = 0 THEN 1 ELSE IF n = 1 THEN 2 ELSE IF n = 2 THEN 4
           ELSE IF n = 3 THEN 8 ELSE 16

\* ------------------------------------------------------------ make_request
\* outs[j] is what the j-th session.get of the call does.
RECURSIVE MakeRequestLoop(_, _, _, _, _)
MakeRequestLoop(outs, verify, max_retries, attempt, tr) ==
    IF attempt >= max_retries
    THEN [tr EXCEPT !.response = None]
    ELSE LET o == outs[Len(tr.gets) + 1]
             t1 == [tr EXCEPT !.gets = Append(@, verify)]
         IN  IF o = "ok"
             THEN [t1 EXCEPT !.response = "response"]
             ELSE IF o = "ssl"
             THEN IF verify
                  THEN MakeRequestLoop(outs, FALSE, max_retries - 1, 0, t1)
                  ELSE [t1 EXCEPT !.response = None]
             ELSE IF attempt = max_retries - 1
                  THEN [t1 EXCEPT !.response = None]
                  ELSE MakeRequestLoop(outs, verify, max_retries, attempt + 1,
                           [t1 EXCEPT !.sleeps = Append(@, Pow2(attempt))])

make_request(outs, verify, max_retries) ==
    MakeRequestLoop(outs, verify, max_retries, 0,
                    [response |-> None, gets |-> <<>>, sleeps |-> <<>>])

\* The callers pass only the URL: verify=True, max_retries=1.
Fetch(o) == make_request(<<o>>, TRUE, DefaultMaxRetries).response

\* --------------------------------------------------------- checkpoint store
\* collection is the sequence of inserted documents, oldest first.
\* Faulty variant: a lookup that never finds the document.
IsUrlScrapedNever(coll, url) == FALSE

is_url_scraped(coll, url) == \E j \in 1..Len(coll) : coll[j].url = url

\* Faulty variants: an insert that replaces the collection, and one that
\* stores another title.
MarkReplacing(coll, url, title) == <<[url |-> url, title |-> title]>>

MarkWrongTitle(coll, url, title) == Append(coll, [url |-> url, title |-> Empty])

mark_url_as_scraped(coll, url, title) ==
    Append(coll, [url |-> url, title |-> title])

RECURSIVE get_unscraped_urls(_, _)
get_unscraped_urls(coll, us) ==
    IF us = <<>> THEN <<>>
    ELSE IF is_url_scraped(coll, Head(us))
         THEN get_unscraped_urls(coll, Tail(us))
         ELSE <<Head(us)>> \o get_unscraped_urls(coll, Tail(us))

\* ------------------------------------------------------ attachment choice
\* Faulty variant: the first other file is preferred.
FileToSendOthersFirst(job_notification_file, other_files) ==
    IF other_files # <<>> THEN other_files[1] ELSE job_notification_file

FileToSend(job_notification_file, other_files) ==
    IF job_notification_file # None THEN job_notification_file
    ELSE IF other_files # <<>> THEN other_files[1] ELSE None

\* ------------------------------------------------------------- extraction
\* The item pages the site may serve: no h1.entry-title, a link with no
\* preceding <b> (find_previous returns None), or a title with its links.
Pages(u) ==
    {[kind |-> "notitle"], [kind |-> "malformed"]}
    \cup {[kind |-> "ok", title |-> t, job_details |-> jd] :
             t \in {Empty, TitleOf(u)}, jd \in JobDetails}

\* scrape_selected_url: raises, or returns (title, job_details).
scrape_selected_url(o, page) ==
    IF Fetch(o) = None
    THEN [raises |-> FALSE, title |-> NoTitle, job_details |-> <<>>]
    ELSE IF page.kind = "notitle"
    THEN [raises |-> FALSE, title |-> NoTitle, job_details |-> <<>>]
    ELSE IF page.kind = "malformed"
    THEN [raises |-> TRUE, title |-> NoTitle, job_details |-> <<>>]
    ELSE [raises |-> FALSE, title |-> page.title,
          job_details |-> page.job_details]

\* Python truth value of a title.
Truthy(t) == t # NoTitle /\ t # Empty

\* ------------------------------------------------- the working directory
\* A disk maps the name of every file of the working directory to its size
\* in bytes.
EmptyDisk == [f \in {} |-> 0]

\* open(filename, 'wb'): the file exists and is empty.
open_wb(disk, f) ==
    [x \in DOMAIN disk \cup {f} |-> IF x = f THEN 0 ELSE disk[x]]

file_write(disk, f, n) == [disk EXCEPT ![f] = @ + n]

getsize(disk, f) == disk[f]

os_remove(disk, f) == [x \in DOMAIN disk \ {f} |-> disk[x]]

\* --------------------------------------------------------------- downloads
\* file_path is None.  A filename is a tuple of the parts it is put
\* together from.
NoFile == <<>>

\* The path of a link's URL: its last segment is stem + ext, ext being
\* empty or starting at the last dot.
UrlPaths ==
    {[stem |-> "notice", ext |-> ".docx"],   \* /files/notice.docx
     [stem |-> "ad", ext |-> ".pdf"],        \* /files/ad.pdf
     [stem |-> "notice", ext |-> ""],        \* /files/notice
     [stem |-> "", ext |-> ".docx"],         \* /files/.docx
     [stem |-> "", ext |-> ""]}              \* /files/

\* os.path.basename(urlparse(url).path)
basename(path) == <<path.stem, path.ext>>

\* os.path.splitext(path)[1]: a leading dot of the last segment starts no
\* extension.
splitext(path) == IF path.stem = "" THEN "" ELSE path.ext

\* response.headers.get('Content-Type'): None when the header is absent.
ContentTypes == {None, "application/pdf", "image/png", "image/jpeg",
                 "application/octet-stream"}

\* 'pdf' in content_type, 'image' in content_type and
\* '.' + content_type.split('/')[1], tabulated for ContentTypes.
HasPdf(content_type) == content_type = "application/pdf"

HasImage(content_type) == content_type \in {"image/png", "image/jpeg"}

ImageExtension(content_type) ==
    IF content_type = "image/png" THEN ".png" ELSE ".jpeg"

\* lines 100-109
Extension(content_type, path) ==
    IF HasPdf(content_type) THEN ".pdf"
    ELSE IF HasImage(content_type) THEN ImageExtension(content_type)
    ELSE IF splitext(path) # "" THEN splitext(path)
    ELSE ".pdf"

\* lines 111-112
Filename(content_type, path) ==
    (IF basename(path) = <<"", "">> THEN <<"download", "">>
     ELSE basename(path)) \o <<Extension(content_type, path)>>

\* The last characters of a filename are its extension part.
EndsIn(filename, e) == filename # NoFile /\ filename[Len(filename)] = e

\* A response body: the sizes of the chunks iter_content yields, and
\* fail_at = j > 0 when reading or writing the j-th chunk raises (j past
\* the last chunk: the end of the iteration or closing the file raises).
Bodies ==
    {[chunks |-> c, fail_at |-> j] :
        c \in SeqsUpTo({0, 1}, MaxChunks), j \in 0..(MaxChunks + 1)}

RECURSIVE SumTo(_, _)
SumTo(chunks, n) == IF n = 0 THEN 0 ELSE SumTo(chunks, n - 1) + chunks[n]

\* lines 114-117: the chunks written before an exception, if any.
WriteBody(disk, f, body) ==
    LET last == Len(body.chunks)
        n == IF body.fail_at = 0 \/ body.fail_at > last THEN last
             ELSE body.fail_at - 1
    IN  [disk |-> file_write(open_wb(disk, f), f, SumTo(body.chunks, n)),
         raised |-> body.fail_at # 0]

\* lines 87-93: how long the call lasts when the request takes dur.  The
\* with statement shuts the executor down with wait=True, so the return of
\* line 93 happens when the worker thread has finished the request.
DownloadLasts(dur, timeout) == dur

\* download_and_verify_file(url, timeout) with the working directory disk.
\* a.path is the path of url, a.o and a.dur what the request does and how
\* long it takes, a.content_type and a.body the response.
DownloadCall(a, disk) ==
    LET done(fp, d) == [file_path |-> fp, disk |-> d,
                        lasted |-> DownloadLasts(a.dur, a.timeout)]
    IN  IF a.dur > a.timeout THEN done(NoFile, disk)
        ELSE IF Fetch(a.o) = None THEN done(NoFile, disk)
        ELSE IF a.content_type = None
        THEN done(NoFile, disk)          \* TypeError at line 100
        ELSE LET filename == Filename(a.content_type, a.path)
                 w == WriteBody(disk, filename, a.body)
             IN  IF w.raised THEN done(NoFile, w.disk)
                 ELSE IF getsize(w.disk, filename) > 0
                 THEN done(filename, w.disk)
                 ELSE done(NoFile, os_remove(w.disk, filename))

\* download_and_verify_file for the link of label text key, whose response
\* is a PDF of size bytes: dur is how long the request takes.  The path
\* returned is named after the link (here: its label text).
download_and_verify_file(key, o, dur, size, timeout) ==
    LET r == DownloadCall(
                 [path |-> [stem |-> key, ext |-> ""], o |-> o, dur |-> dur,
                  content_type |-> "application/pdf",
                  body |-> [chunks |-> <<size>>, fail_at |-> 0],
                  timeout |-> timeout], EmptyDisk)
    IN  IF r.file_path = NoFile THEN None ELSE key

\* The href of the link of label text key, as found on the page.
LinkUrl(key) == <<"long", key>>

\* Faulty variant: no link is returned when tinyurl fails.
ShortenUrlNoFallback(key, so) ==
    IF so = "ok" THEN <<"short", key>> ELSE <<"none", key>>

\* shorten_url: the short link, or the original one when tinyurl fails.
shorten_url(key, so) == IF so = "ok" THEN <<"short", key>> ELSE LinkUrl(key)

\* The line handle_files_and_send_to_telegram adds for a label text.
Label(key) ==
    IF Contains(key, "Job Advertisement") THEN "Job Advertisement"
    ELSE IF Contains(key, "Job Notification") THEN "Job Notification"
    ELSE IF Contains(key, "Official website") THEN "Official Website"
    ELSE IF Contains(key, "Apply Online") THEN "Apply Online"
    ELSE key

\* ------------------------------------------------------------------- state
VARIABLES
    pc,                     \* position of main()
    run,                    \* number of runs of main() started
    index,                  \* the URLs this run found on the index page
                            \* (or Unread)
    urls,                   \* main: urls
    unscraped_urls,         \* main: unscraped_urls
    i,                      \* main: position in unscraped_urls
    collection,             \* the MongoDB collection
    title,                  \* scrape_and_send: title
    job_details,            \* scrape_and_send: job_details
    k,                      \* handle_files...: position in job_details
    message,                \* handle_files...: the link lines of message
                            \* (of the item's text, once it is sent)
    job_notification_file,  \* handle_files...: job_notification_file
    other_files,            \* handle_files...: other_files
    downloaded,             \* label texts whose download succeeded, in order
    elapsed,                \* seconds since scrape_and_send started the
                            \* item (0 when it has returned)
    outcome,                \* how the current item ended ("none" while open)
    sentFile,               \* the document of the item's send ("nosend")
    itemSends,              \* how each send_to_telegram of the item ended
    itemStartLen,           \* Len(collection) when the item was started
    delivered,              \* URLs with a message that reached the channel
    sentInRun,              \* URLs a send_to_telegram of this run returned for
    insertedInRun,          \* URLs a document was inserted for in this run
    entered,                \* URLs that entered scrape_selected_url this run
    attempted,              \* scrape_and_send calls of this run
    abandonedInRun,         \* URLs with an item of this run that was abandoned
    runError,               \* the exception main() caught, or "none"
    startLen,               \* Len(collection) when this run started
    repeatRun,              \* this run saw the index of the previous run,
                            \* which had ended without an exception in main
    req,                    \* one make_request call, for SpecReq
    dl,                     \* one download_and_verify_file call, for SpecDl
    instances,              \* the position of each concurrent main(), for
                            \* SpecConc
    deliveryCount           \* messages delivered per URL, for SpecConc

itemVars == <<title, job_details, k, message, job_notification_file,
              other_files, downloaded, elapsed, outcome, sentFile,
              itemSends, itemStartLen>>

runVars == <<run, index, urls, unscraped_urls, startLen, repeatRun>>

ghostVars == <<delivered, sentInRun, insertedInRun, entered,
               attempted, abandonedInRun>>

concVars == <<instances, deliveryCount>>

\* What the steps of one main() leave alone.
otherVars == <<req, dl, concVars>>

vars == <<pc, i, collection, runError, otherVars, itemVars, runVars, ghostVars>>

NoReq == [called |-> FALSE, outs |-> <<>>, verify |-> TRUE,
          max_retries |-> DefaultMaxRetries,
          result |-> [response |-> None, gets |-> <<>>, sleeps |-> <<>>]]

NoDl == [called |-> FALSE,
         args |-> [path |-> [stem |-> "", ext |-> ""], o |-> "ok", dur |-> 1,
                   content_type |-> None,
                   body |-> [chunks |-> <<>>, fail_at |-> 0],
                   timeout |-> DownloadTimeout],
         disk |-> EmptyDisk,
         result |-> [file_path |-> NoFile, disk |-> EmptyDisk, lasted |-> 0]]

Instances == 1..NumInstances

\* No concurrent main() is running.
ConcIdle ==
    /\ instances = [p \in Instances |->
                       [pc |-> "idle", j |-> 0, unscraped_urls |-> <<>>,
                        i |-> 0]]
    /\ deliveryCount = [u \in URLs |-> 0]

ItemInit ==
    /\ title = NoTitle
    /\ job_details = <<>>
    /\ k = 0
    /\ message = <<>>
    /\ job_notification_file = None
    /\ other_files = <<>>
    /\ downloaded = <<>>
    /\ elapsed = 0
    /\ outcome = "none"
    /\ sentFile = "nosend"
    /\ itemSends = <<>>
    /\ itemStartLen = 0

MainInit ==
    /\ pc = "start"
    /\ run = 0
    /\ index = Unread
    /\ urls = <<>>
    /\ unscraped_urls = <<>>
    /\ i = 0
    /\ collection = <<>>
    /\ ItemInit
    /\ delivered = {}
    /\ sentInRun = {}
    /\ insertedInRun = {}
    /\ entered = {}
    /\ attempted = 0
    /\ abandonedInRun = {}
    /\ runError = "none"
    /\ startLen = 0
    /\ repeatRun = FALSE

Init == MainInit /\ req = NoReq /\ dl = NoDl /\ ConcIdle

ItemReset ==
    /\ title' = NoTitle
    /\ job_details' = <<>>
    /\ k' = 0
    /\ message' = <<>>
    /\ job_notification_file' = None
    /\ other_files' = <<>>
    /\ downloaded' = <<>>
    /\ elapsed' = 0
    /\ outcome' = "none"
    /\ sentFile' = "nosend"
    /\ itemSends' = <<>>
    /\ itemStartLen' = 0

\* scrape_and_send, lines 252-255: an exception raised inside the try is
\* logged and scrape_and_send returns to the loop of main.
\* (Faulty variant: the exception reaches main.)
ItemErrorPropagates == "done"

ItemErrorTarget == "pace"

\* scrape_and_send, lines 248-249: mark_url_as_scraped is reached only when
\* handle_files_and_send_to_telegram returned (r is how Bot/send ended).
\* (Faulty variant: it is reached also when the call raised.)
AfterHandleAlways(r) == "mark"

AfterHandle(r) == IF r = "raise" THEN ItemErrorTarget ELSE "mark"

\* The item of url ends abandoned.
Abandon(url) == abandonedInRun' = abandonedInRun \cup {url}

\* -------------------------------------------------------------------- main
\* (Faulty variant: a URL is returned for an unreachable index page.)
FetchFailureStale == <<1>>

\* fetch_urls, line 148: the list returned when the index page is
\* unreachable.
FetchFailureUrls == <<>>

\* main, lines 262-266: fetch_urls.  The index page is unreachable (urls
\* is empty), or an anchor has no href (KeyError, caught by main), or the
\* hrefs are returned in document order.
FetchUrls ==
    /\ pc \in {"start", "done"}
    /\ run < MaxRuns
    /\ \E response \in {Fetch(o) : o \in GetOutcomes}, href \in BOOLEAN :
          IF response = None
          THEN /\ index' = Unread
               /\ repeatRun' = FALSE
               /\ urls' = FetchFailureUrls
               /\ pc' = "filter"
               /\ runError' = "none"
          ELSE IF ~href
          THEN /\ index' = Unread
               /\ repeatRun' = FALSE
               /\ urls' = <<>>
               /\ pc' = "done"
               /\ runError' = "discovery"
          ELSE \E content \in IndexLists :
                 /\ index' = content
                 /\ repeatRun' = (run >= 1 /\ runError = "none"
                                   /\ index = content)
                 /\ urls' = content
                 /\ pc' = "filter"
                 /\ runError' = "none"
    /\ run' = run + 1
    /\ unscraped_urls' = <<>>
    /\ i' = 0
    /\ startLen' = Len(collection)
    /\ sentInRun' = {}
    /\ insertedInRun' = {}
    /\ entered' = {}
    /\ attempted' = 0
    /\ abandonedInRun' = {}
    /\ UNCHANGED <<collection, otherVars, itemVars, delivered>>

\* main, line 266: get_unscraped_urls.  find_one may raise when the store
\* is unreachable; main catches it and the run ends.
Filter ==
    /\ pc = "filter"
    /\ \E storeOK \in BOOLEAN :
          IF storeOK \/ urls = <<>>
          THEN /\ unscraped_urls' = get_unscraped_urls(collection, urls)
               /\ i' = 1
               /\ pc' = "loop"
               /\ runError' = "none"
          ELSE /\ pc' = "done"
               /\ runError' = "store"
               /\ UNCHANGED <<unscraped_urls, i>>
    /\ UNCHANGED <<collection, otherVars, itemVars, ghostVars,
                   run, index, urls, startLen, repeatRun>>

\* main, lines 270-272 and scrape_and_send, lines 240-244: the re-check of
\* the store, outside the try of scrape_and_send.
ItemCheck ==
    /\ pc = "loop"
    /\ i <= Len(unscraped_urls)
    /\ attempted' = attempted + 1
    /\ itemStartLen' = Len(collection)
    /\ \E storeOK \in BOOLEAN :
          LET url == unscraped_urls[i]
          IN  IF ~storeOK
              THEN /\ pc' = "done"
                   /\ runError' = "store"
                   /\ UNCHANGED <<outcome, entered>>
              ELSE IF is_url_scraped(collection, url)
              THEN /\ pc' = "pace"
                   /\ outcome' = "skipped"
                   /\ UNCHANGED <<runError, entered>>
              ELSE /\ pc' = "scrape"
                   /\ entered' = entered \cup {url}
                   /\ UNCHANGED <<runError, outcome>>
    /\ UNCHANGED <<i, collection, otherVars, runVars, title, job_details, k, message,
                   job_notification_file, other_files, downloaded, elapsed,
                   sentFile, itemSends, delivered, sentInRun,
                   insertedInRun, abandonedInRun>>

\* main, line 275: the loop is over.
Finish ==
    /\ pc = "loop"
    /\ i > Len(unscraped_urls)
    /\ pc' = "done"
    /\ UNCHANGED <<i, collection, runError, otherVars, itemVars, runVars, ghostVars>>

\* scrape_and_send, lines 245-247 and 250-255: scrape_selected_url under
\* wait_for.  d is how long scrape_selected_url takes.
Scrape ==
    /\ pc = "scrape"
    /\ LET url == unscraped_urls[i]
       IN  \E d \in ScrapeDurations :
             IF d > ItemTimeout
             THEN /\ outcome' = "timeout"
                  /\ elapsed' = 0
                  /\ pc' = ItemErrorTarget
                  /\ Abandon(url)
                  /\ UNCHANGED <<title, job_details, k>>
             ELSE \E r \in {scrape_selected_url(o, page) :
                               o \in GetOutcomes, page \in Pages(url)} :
                    IF r.raises
                    THEN /\ outcome' = "error"
                         /\ elapsed' = 0
                         /\ pc' = ItemErrorTarget
                         /\ Abandon(url)
                         /\ UNCHANGED <<title, job_details, k>>
                    ELSE IF Truthy(r.title)
                            THEN /\ elapsed' = d
                                 /\ title' = r.title
                                 /\ job_details' = r.job_details
                                 /\ pc' = "handle"
                                 /\ k' = 1
                                 /\ UNCHANGED <<outcome, abandonedInRun>>
                            ELSE \* line 251, and scrape_and_send returns
                                 /\ elapsed' = 0
                                 /\ pc' = "pace"
                                 /\ outcome' = "failed"
                                 /\ Abandon(url)
                                 /\ UNCHANGED <<title, job_details, k>>
    /\ UNCHANGED <<i, collection, runError, otherVars, runVars, message,
                   job_notification_file, other_files, downloaded, sentFile,
                   itemSends, itemStartLen, delivered, sentInRun,
                   insertedInRun, entered, attempted>>

\* handle_files_and_send_to_telegram, lines 195-216: one link of job_details.
\* The executor of download_and_verify_file is shut down with wait=True, so
\* the call lasts as long as the request does.
HandleLink ==
    /\ pc = "handle"
    /\ k <= Len(job_details)
    /\ LET key == job_details[k]
       IN  \E short_url \in {shorten_url(key, so) : so \in {"ok", "error"}},
              got \in {[file_path |-> download_and_verify_file(
                                        key, o, dur, size, DownloadTimeout),
                       dur |-> DownloadLasts(dur, DownloadTimeout)] :
                         o \in GetOutcomes, dur \in DownloadDurations,
                         size \in {0, 1}} :
          LET file_path == got.file_path
          IN  /\ message' = Append(message, [label |-> Label(key),
                                             link |-> short_url])
              /\ elapsed' = elapsed + ShortenPause + got.dur
              /\ IF file_path # None
                 THEN /\ downloaded' = Append(downloaded, key)
                      /\ IF Contains(key, "Job Notification")
                         THEN /\ job_notification_file' = file_path
                              /\ UNCHANGED other_files
                         ELSE /\ other_files' = Append(other_files, file_path)
                              /\ UNCHANGED job_notification_file
                 ELSE UNCHANGED <<downloaded, job_notification_file,
                                  other_files>>
    /\ k' = k + 1
    /\ UNCHANGED <<pc, i, collection, runError, otherVars, runVars, ghostVars,
                   title, job_details, outcome, sentFile, itemSends,
                   itemStartLen>>

\* handle_files_and_send_to_telegram, lines 218-228, and send_to_telegram:
\* the message is delivered ("ok"), the send raises and send_to_telegram
\* logs it ("fail"), or Bot(token=...) raises outside its try ("raise").
Send ==
    /\ pc = "handle"
    /\ k > Len(job_details)
    /\ \E r \in {"ok", "fail", "raise"}, d \in SendDurations :
          LET url == unscraped_urls[i]
          IN  /\ elapsed' = IF r = "raise" THEN 0 ELSE elapsed + d
              /\ pc' = AfterHandle(r)
              /\ IF r = "raise"
                 THEN /\ outcome' = "error"
                      /\ Abandon(url)
                      /\ downloaded' = <<>>
                      /\ UNCHANGED <<sentFile, itemSends, delivered,
                                     sentInRun>>
                 ELSE /\ sentFile' = FileToSend(job_notification_file,
                                                other_files)
                      /\ itemSends' = Append(itemSends, r)
                      /\ sentInRun' = sentInRun \cup {url}
                      /\ delivered' = IF r = "ok"
                                      THEN delivered \cup {url}
                                      ELSE delivered
                      /\ UNCHANGED <<outcome, downloaded, abandonedInRun>>
    \* the locals of handle_files_and_send_to_telegram end with the call,
    \* and job_details is not read again; message stays as the text sent
    /\ k' = 0
    /\ job_notification_file' = None
    /\ other_files' = <<>>
    /\ job_details' = <<>>
    /\ UNCHANGED <<i, collection, runError, otherVars, runVars, title, message,
                   itemStartLen, insertedInRun, entered, attempted>>

\* scrape_and_send, line 249: mark_url_as_scraped.  insert_one may raise;
\* the except of line 254 catches it.
Mark ==
    /\ pc = "mark"
    /\ \E storeOK \in BOOLEAN :
          LET url == unscraped_urls[i]
          IN  IF storeOK
              THEN /\ collection' = mark_url_as_scraped(collection, url, title)
                   /\ insertedInRun' = insertedInRun \cup {url}
                   /\ outcome' = "checkpointed"
                   /\ UNCHANGED abandonedInRun
                   /\ pc' = "pace"
              ELSE /\ outcome' = "error"
                   /\ Abandon(url)
                   /\ pc' = ItemErrorTarget
                   /\ UNCHANGED <<collection, insertedInRun>>
    /\ downloaded' = <<>>
    /\ sentFile' = "nosend"
    /\ elapsed' = 0
    /\ UNCHANGED <<i, runError, otherVars, runVars, title, job_details, k, message,
                   job_notification_file, other_files, itemSends,
                   itemStartLen, delivered, sentInRun, entered,
                   attempted>>

\* (Faulty variant: the loop leaves out every other item.)
AdvanceSkipping(n) == n + 2

\* main, line 270: enumerate goes to the next element of unscraped_urls.
Advance(n) == n + 1

\* main, line 273: time.sleep(10), then the next item.
Pace ==
    /\ pc = "pace"
    /\ i' = Advance(i)
    /\ pc' = "loop"
    /\ ItemReset
    /\ UNCHANGED <<collection, runError, otherVars, runVars, ghostVars>>

Next ==
    \/ FetchUrls
    \/ Filter
    \/ ItemCheck
    \/ Finish
    \/ Scrape
    \/ HandleLink
    \/ Send
    \/ Mark
    \/ Pace

Spec == Init /\ [][Next]_vars

\* ------------------------------------------- make_request on its own
\* One call of make_request with any arguments and any behaviour of the
\* server; outs is long enough for every GET the call can issue.
OracleLen == 2 * MaxRetries

ReqInputs ==
    {[called |-> FALSE, outs |-> outs, verify |-> v, max_retries |-> m,
      result |-> NoReq.result] :
        outs \in [1..OracleLen -> GetOutcomes], v \in BOOLEAN,
        m \in 1..MaxRetries}

InitReq == MainInit /\ req \in ReqInputs /\ dl = NoDl /\ ConcIdle

CallMakeRequest ==
    /\ ~req.called
    /\ req' = [req EXCEPT !.called = TRUE,
                          !.result = make_request(req.outs, req.verify,
                                                  req.max_retries)]
    /\ UNCHANGED <<pc, i, collection, runError, dl, concVars, itemVars,
                   runVars, ghostVars>>

NextReq == CallMakeRequest

SpecReq == InitReq /\ [][NextReq]_vars

\* ------------------------------- download_and_verify_file on its own
\* One call of download_and_verify_file for any link, any behaviour of the
\* server and a working directory that is empty or holds an older file.
OldFiles == {<<"notice", ".docx", ".docx">>}

DlInputs ==
    {[called |-> FALSE,
      args |-> [path |-> p, o |-> o, dur |-> d, content_type |-> ct,
                body |-> b, timeout |-> t],
      disk |-> dk, result |-> NoDl.result] :
        p \in UrlPaths, o \in GetOutcomes, d \in DownloadDurations,
        ct \in ContentTypes, b \in Bodies, t \in {DownloadTimeout, 200},
        dk \in {EmptyDisk, [f \in OldFiles |-> 5]}}

InitDl == MainInit /\ req = NoReq /\ dl \in DlInputs /\ ConcIdle

CallDownload ==
    /\ ~dl.called
    /\ dl' = [dl EXCEPT !.called = TRUE,
                        !.result = DownloadCall(dl.args, dl.disk)]
    /\ UNCHANGED <<pc, i, collection, runError, req, concVars, itemVars,
                   runVars, ghostVars>>

NextDl == CallDownload

SpecDl == InitDl /\ [][NextDl]_vars

\* ------------------------- handle_files_and_send_to_telegram on its own
\* scrape_and_send has extracted a title and any dict of up to
\* MaxItemLinks links for the first URL of a run.
InitItem ==
    /\ pc = "handle"
    /\ run = 1
    /\ index = <<1>>
    /\ urls = <<1>>
    /\ unscraped_urls = <<1>>
    /\ i = 1
    /\ collection = <<>>
    /\ title = TitleOf(1)
    /\ job_details \in Dicts(MaxItemLinks)
    /\ k = 1
    /\ message = <<>>
    /\ job_notification_file = None
    /\ other_files = <<>>
    /\ downloaded = <<>>
    /\ elapsed = 10
    /\ outcome = "none"
    /\ sentFile = "nosend"
    /\ itemSends = <<>>
    /\ itemStartLen = 0
    /\ delivered = {}
    /\ sentInRun = {}
    /\ insertedInRun = {}
    /\ entered = {1}
    /\ attempted = 1
    /\ abandonedInRun = {}
    /\ runError = "none"
    /\ startLen = 0
    /\ repeatRun = FALSE
    /\ req = NoReq
    /\ dl = NoDl
    /\ ConcIdle

NextItem == HandleLink \/ Send

SpecItem == InitItem /\ [][NextItem]_vars

\* ------------------------------------------- several main() at one time
\* NumInstances processes run main() against the same collection and the
\* same index page, whose hrefs are distinct.  Each call of the store and
\* each await is a step of its own; the steps of the instances interleave
\* in any order.  urls is the content of the index page, instances[p] the
\* locals of instance p: j is the position of get_unscraped_urls in urls.
ConcIndexLists ==
    {s \in IndexLists :
        s # <<>> /\ \A a, b \in 1..Len(s) : a # b => s[a] # s[b]}

InitConc ==
    /\ pc = "start"
    /\ run = 0
    /\ index \in ConcIndexLists
    /\ urls = index
    /\ unscraped_urls = <<>>
    /\ i = 0
    /\ collection = <<>>
    /\ ItemInit
    /\ delivered = {}
    /\ sentInRun = {}
    /\ insertedInRun = {}
    /\ entered = {}
    /\ attempted = 0
    /\ abandonedInRun = {}
    /\ runError = "none"
    /\ startLen = 0
    /\ repeatRun = FALSE
    /\ req = NoReq
    /\ dl = NoDl
    /\ ConcIdle

\* What the steps of the concurrent instances leave alone.
mainVars == <<pc, i, runError, req, dl, itemVars, runVars, ghostVars>>

\* main, line 265: fetch_urls returns the hrefs of the index page.
CFetchUrls(p) ==
    /\ instances[p].pc = "idle"
    /\ instances' = [instances EXCEPT ![p].pc = "filter", ![p].j = 1]
    /\ UNCHANGED <<collection, deliveryCount, mainVars>>

\* get_unscraped_urls, line 258: one is_url_scraped of the comprehension,
\* or its end.
CFilter(p) ==
    /\ instances[p].pc = "filter"
    /\ LET me == instances[p]
       IN  IF me.j > Len(urls)
           THEN instances' = [instances EXCEPT ![p].pc = "loop", ![p].i = 1]
           ELSE instances' =
                   [instances EXCEPT
                      ![p].j = me.j + 1,
                      ![p].unscraped_urls =
                          IF is_url_scraped(collection, urls[me.j]) THEN @
                          ELSE Append(@, urls[me.j])]
    /\ UNCHANGED <<collection, deliveryCount, mainVars>>

\* main, lines 270-275 and scrape_and_send, lines 240-251: the re-check of
\* the store and, for a URL without a document, scrape_selected_url.
CItemCheck(p) ==
    /\ instances[p].pc = "loop"
    /\ LET me == instances[p]
       IN  IF me.i > Len(me.unscraped_urls)
           THEN instances' = [instances EXCEPT ![p].pc = "done"]
           ELSE IF is_url_scraped(collection, me.unscraped_urls[me.i])
           THEN instances' = [instances EXCEPT ![p].pc = "pace"]
           ELSE \E extracted \in BOOLEAN :
                   instances' = [instances EXCEPT
                                   ![p].pc = IF extracted THEN "handle"
                                             ELSE "pace"]
    /\ UNCHANGED <<collection, deliveryCount, mainVars>>

\* scrape_and_send, line 248: the message is delivered or the send fails.
CSend(p) ==
    /\ instances[p].pc = "handle"
    /\ LET url == instances[p].unscraped_urls[instances[p].i]
       IN  \E r \in {"ok", "fail"} :
              deliveryCount' =
                 IF r = "ok" THEN [deliveryCount EXCEPT ![url] = @ + 1]
                 ELSE deliveryCount
    /\ instances' = [instances EXCEPT ![p].pc = "mark"]
    /\ UNCHANGED <<collection, mainVars>>

\* scrape_and_send, line 249: insert_one.
CMark(p) ==
    /\ instances[p].pc = "mark"
    /\ LET url == instances[p].unscraped_urls[instances[p].i]
       IN  collection' = mark_url_as_scraped(collection, url, TitleOf(url))
    /\ instances' = [instances EXCEPT ![p].pc = "pace"]
    /\ UNCHANGED <<deliveryCount, mainVars>>

\* main, line 273.
CPace(p) ==
    /\ instances[p].pc = "pace"
    /\ instances' = [instances EXCEPT ![p].pc = "loop", ![p].i = @ + 1]
    /\ UNCHANGED <<collection, deliveryCount, mainVars>>

NextConc ==
    \E p \in Instances :
        \/ CFetchUrls(p)
        \/ CFilter(p)
        \/ CItemCheck(p)
        \/ CSend(p)
        \/ CMark(p)
        \/ CPace(p)

SpecConc == InitConc /\ [][NextConc]_vars

\* ================================================================ claims
HasRecord(coll, u) == \E j \in 1..Len(coll) : coll[j].url = u

\* The collection as it was when the current run started.
StartCollection == SubSeq(collection, 1, startLen)

AbandonedOutcomes == {"timeout", "error", "failed"}

\* C1: a document is inserted only by the step that follows the item's
\* notifying step: whenever a step adds a document for a URL, a
\* send_to_telegram for that URL has returned before in the same run and
\* the item's handle_files_and_send_to_telegram is over (pc = "mark").
C1_RecordOnlyAfterNotifying ==
    [][Len(collection') > Len(collection)
         => /\ pc = "mark"
            /\ itemSends # <<>>
            /\ collection'[Len(collection')].url = unscraped_urls[i]
            /\ unscraped_urls[i] \in sentInRun]_vars

C1_Witness ==
    /\ pc = "pace"
    /\ outcome = "checkpointed"
    /\ Len(collection) = itemStartLen + 1
    /\ collection[Len(collection)].url \in sentInRun

\* C2 (as stated): whenever the collection holds a document for a URL, a
\* notification for that URL was delivered to the channel.
C2_RecordImpliesDelivered ==
    \A j \in 1..Len(collection) : collection[j].url \in delivered

\* C3 (as stated): a run of main that follows a run on the same index
\* content sends no notification and inserts no document.
C3_SecondRunDoesNothing ==
    repeatRun => sentInRun = {} /\ insertedInRun = {}

\* C3 (amended): a run of main that follows a run on the same index content
\* sends no notification and inserts no document for any URL that had a
\* document when the run started.
C3_SecondRunSkipsCheckpointed ==
    repeatRun =>
        \A u \in URLs : HasRecord(StartCollection, u)
                          => u \notin sentInRun \cup insertedInRun

C3_Witness ==
    /\ repeatRun
    /\ pc = "done"
    /\ runError = "none"
    /\ \E u \in Range(urls) : HasRecord(StartCollection, u)
    /\ \E u \in Range(urls) : ~HasRecord(StartCollection, u) /\ u \in sentInRun

\* C4 (as stated): no URL has a notification delivered to the channel more
\* than once, over all runs and all failures of store, fetcher and notifier:
\* a send that delivers is never for a URL already delivered.
C4_AtMostOneDelivery ==
    [][(pc = "handle" /\ Len(itemSends') > Len(itemSends)
          /\ itemSends'[Len(itemSends')] = "ok")
         => unscraped_urls[i] \notin delivered]_vars

\* C5: no step removes or changes a document of the collection: every
\* document stays at its place, so a URL that is_url_scraped once stays so
\* in every later state and run.
C5_CollectionOnlyGrows ==
    [][\A j \in 1..Len(collection) :
          j <= Len(collection') /\ collection'[j] = collection[j]]_vars

C5_Witness ==
    /\ run = 2
    /\ pc = "pace"
    /\ outcome = "checkpointed"
    /\ startLen >= 1
    /\ Len(collection) = startLen + 1

\* C6 (as stated): a call with verify=True and the default max_retries whose
\* first GET fails with an SSL error issues exactly one more GET, with
\* verification disabled, and returns that GET's response or None.
C6_OneUnverifiedRetry ==
    (req.called /\ req.verify /\ req.max_retries = DefaultMaxRetries
       /\ req.outs[1] = "ssl")
    => /\ req.result.gets = <<TRUE, FALSE>>
       /\ (req.result.response = None) <=> (req.outs[2] # "ok")

\* C7 (as stated): an item whose extraction, attachment fetches and
\* notification together took longer than the timeout is abandoned: the
\* step that follows its notification inserts no document for it.
C7_WholeItemTimeout ==
    [][(pc = "mark" /\ elapsed > ItemTimeout)
         => outcome' \in AbandonedOutcomes /\ collection' = collection]_vars

C11_NoZeroByteFile ==
    dl.called =>
        /\ \A f \in DOMAIN dl.result.disk : dl.result.disk[f] > 0
        /\ (dl.result.file_path # NoFile
              => dl.result.disk[dl.result.file_path] > 0)

\* C15 (as stated): a call whose request succeeds in time with a non-empty
\* body that is written without error returns a path ending in .pdf for a
\* PDF content type, in .png for image/png, in .docx for an unrecognized
\* content type and a URL path ending in .docx, and in .pdf when the
\* content type is unrecognized or absent and the URL path has no extension.
C15_AttachmentNaming ==
    (/\ dl.called
     /\ Fetch(dl.args.o) # None
     /\ dl.args.dur <= dl.args.timeout
     /\ dl.args.body.fail_at = 0
     /\ SumTo(dl.args.body.chunks, Len(dl.args.body.chunks)) > 0)
    => LET ct == dl.args.content_type
           p == dl.result.file_path
       IN  /\ HasPdf(ct) => EndsIn(p, ".pdf")
           /\ ct = "image/png" => EndsIn(p, ".png")
           /\ (ct = "application/octet-stream" /\ dl.args.path.ext = ".docx")
                => EndsIn(p, ".docx")
           /\ (ct \in {None, "application/octet-stream"}
                 /\ dl.args.path.ext = "")
                => EndsIn(p, ".pdf")

\* C18 (as stated): a call whose request has not finished within the
\* timeout returns None and has lasted no longer than the timeout.
C18_ReturnsAtTimeout ==
    (dl.called /\ dl.args.dur > dl.args.timeout)
    => /\ dl.result.file_path = NoFile
       /\ dl.result.lasted <= dl.args.timeout

\* C12: the step of handle_files_and_send_to_telegram for a link keeps the
\* item going whether tinyurl answers or fails: it adds one line whose link
\* is the short URL or, on failure, the link's original URL, and abandons
\* nothing; the step after the last link sends the message with these lines
\* and goes on to mark_url_as_scraped unless Bot itself raises.
C12_ShortenerFailureKeepsItem ==
    [][pc = "handle" =>
         IF k <= Len(job_details)
         THEN /\ pc' = "handle"
              /\ k' = k + 1
              /\ Len(message') = Len(message) + 1
              /\ message'[Len(message')].link
                    \in {<<"short", job_details[k]>>, LinkUrl(job_details[k])}
              /\ outcome' = outcome
              /\ abandonedInRun' = abandonedInRun
         ELSE /\ message' = message
              /\ \/ pc' = "mark" /\ Len(itemSends') = 1
                 \/ outcome' = "error" /\ itemSends' = itemSends]_vars

C12_Witness ==
    /\ pc = "pace"
    /\ outcome = "checkpointed"
    /\ itemSends = <<"ok">>
    /\ Len(message) = 1
    /\ message[1].link = LinkUrl("Official website")
    /\ collection[Len(collection)].url = unscraped_urls[i]

\* C13: in a run of main whose index page was unreachable, fetch_urls has
\* returned the empty list, no item is attempted, extracted, notified or
\* checkpointed, the collection is as it was when the run started, no
\* exception reaches main and the loop has nothing left to do but finish.
C13_DiscoveryFailureNoWork ==
    (run >= 1 /\ index = Unread /\ runError # "discovery")
    => /\ urls = <<>>
       /\ unscraped_urls = <<>>
       /\ attempted = 0
       /\ entered = {}
       /\ sentInRun = {}
       /\ insertedInRun = {}
       /\ Len(collection) = startLen
       /\ runError = "none"
       /\ pc \in {"filter", "loop", "done"}
       /\ pc = "loop" => i > Len(unscraped_urls)

C13_Witness ==
    /\ run = 2
    /\ index = Unread
    /\ pc = "done"
    /\ runError = "none"
    /\ urls = <<>>
    /\ Len(collection) >= 1
    /\ Len(collection) = startLen

\* C14 (as stated): when several instances of main run at the same time on
\* the same collection and index page, no URL has more than one message
\* delivered and no URL has more than one document in the collection.
C14_NoDuplicateAcrossInstances ==
    \A u \in URLs :
        /\ deliveryCount[u] <= 1
        /\ Cardinality({n \in 1..Len(collection) : collection[n].url = u}) <= 1

\* C16 (as stated): scrape_and_send never starts extraction for a URL that
\* an item of the same run was abandoned for.
C16_NoRetryWithinRun ==
    [][(pc = "loop" /\ pc' = "scrape")
         => unscraped_urls[i] \notin abandonedInRun]_vars

\* C17 (as stated): a call of make_request issues at most max_retries GETs;
\* when every GET fails with a non-TLS error it issues exactly max_retries
\* of them, sleeps 1, 2, 4, ... seconds between them and returns None.
C17_AtMostMaxRetriesGets ==
    req.called =>
        /\ Len(req.result.gets) <= req.max_retries
        /\ (\A n \in 1..req.max_retries : req.outs[n] = "err")
             => /\ Len(req.result.gets) = req.max_retries
                /\ req.result.sleeps =
                      [n \in 1..(req.max_retries - 1) |-> Pow2(n - 1)]
                /\ req.result.response = None

\* C19 (as stated): when insert_one fails for an item whose message was
\* delivered, the run ends with the store error and no later item is
\* started.
C19_WriteFailureEndsRun ==
    [][(pc = "mark" /\ itemSends = <<"ok">> /\ collection' = collection)
         => pc' = "done" /\ runError' = "store"]_vars

\* C20: within a run the position in unscraped_urls moves only by the
\* pacing step, one element at a time, from an item that has reached its
\* outcome; every step that gives an item its outcome leads to the pacing
\* step; scrape_and_send is entered only from the loop, with no item open,
\* and the list of the run's items does not change while an item is open.
C20_SequentialPacing ==
    [][/\ (pc \in {"loop", "scrape", "handle", "mark", "pace"} /\ i' # i)
            => /\ pc = "pace"
               /\ pc' = "loop"
               /\ i' = i + 1
               /\ outcome \in {"checkpointed", "skipped"}
                                 \cup AbandonedOutcomes
       /\ (outcome = "none" /\ outcome' # "none") => pc' = "pace"
       /\ attempted' > attempted
            => pc = "loop" /\ outcome = "none" /\ i' = i
       /\ pc \in {"loop", "scrape", "handle", "mark", "pace"}
            => unscraped_urls' = unscraped_urls]_vars

C20_Witness ==
    /\ pc = "pace"
    /\ i = 2
    /\ attempted = 2
    /\ outcome = "skipped"
    /\ unscraped_urls = <<1, 1>>

====
